---- MODULE Spec2Model ----
(***************************************************************************)
(* Model of the stats library (src/src/lib.rs): mean, stddev, median and   *)
(* l2 over a slice of f64.                                                 *)
(*                                                                         *)
(* f64 is modelled by a small binary floating-point format with the same   *)
(* structure as IEEE 754 binary64: a sign, Prec mantissa bits, gradual     *)
(* underflow, signed zeros, two infinities and NaN, and round-to-nearest   *)
(* ties-to-even on every operation.  A finite value is sign * m * 2^-Frac  *)
(* where the magnitude m is an integer of the form mant * 2^e with         *)
(* mant < 2^Prec and e <= EMax.                                            *)
(***************************************************************************)
EXTENDS Integers, Sequences, FiniteSets

Prec == 3      \* mantissa bits of the modelled format
EMax == 4      \* largest exponent above the subnormal range
Frac == 2      \* 1.0 is 2^Frac units of the smallest subnormal
MaxLen == 3    \* longest sample explored

RECURSIVE Pow2(_)
Pow2(n) == IF n = 0 THEN 1 ELSE 2 * Pow2(n - 1)

\* the largest finite magnitude, in units of 2^-Frac
MaxFin == (Pow2(Prec) - 1) * Pow2(EMax)

(***************************************************************************)
(* f64 values                                                              *)
(***************************************************************************)
Fin(sign, mag) == [k |-> "fin", s |-> sign, m |-> mag]
Inf(sign) == [k |-> "inf", s |-> sign, m |-> 0]
NaN == [k |-> "nan", s |-> 0, m |-> 0]
Zero == Fin(0, 0)

IsNaN(a) == a.k = "nan"
IsFinite(a) == a.k = "fin"
IsZero(a) == a.k = "fin" /\ a.m = 0

\* the even neighbour of a tie between the adjacent magnitudes lo < hi
TieEven(lo, hi) == IF (lo \div (hi - lo)) % 2 = 0 THEN lo ELSE hi

\* the exponent of the binade of p / q: the least e with p / q < 2^(Prec+e),
\* at most EMax; the spacing of the format around p / q is 2^e
RECURSIVE ExpOf(_, _, _)
ExpOf(p, q, e) ==
    IF e >= EMax \/ p < q * Pow2(Prec + e) THEN e ELSE ExpOf(p, q, e + 1)

\* round-to-nearest-even of the non-negative rational p / q; the result is a
\* finite magnitude, or MaxFin + 1 to signal overflow to infinity
RoundMag(p, q) ==
    LET ulp == Pow2(ExpOf(p, q, 0))
        lo == (p \div (q * ulp)) * ulp
        hi == lo + ulp
        r == IF lo * q = p THEN lo
             ELSE IF 2 * p < q * (lo + hi) THEN lo
             ELSE IF 2 * p > q * (lo + hi) THEN hi
             ELSE TieEven(lo, hi)
    IN  IF r > MaxFin THEN MaxFin + 1 ELSE r

\* the f64 of sign `sign` nearest to p / q
Round(sign, p, q) ==
    LET r == RoundMag(p, q)
    IN  IF r > MaxFin THEN Inf(sign) ELSE Fin(sign, r)

\* usize as f64
FromUsize(n) == Round(0, n * Pow2(Frac), 1)

Neg(a) == IF IsNaN(a) THEN NaN ELSE [a EXCEPT !.s = 1 - a.s]

\* signed magnitude of a finite value
Signed(a) == IF a.s = 1 THEN 0 - a.m ELSE a.m

\* a + b
Add(a, b) ==
    IF IsNaN(a) \/ IsNaN(b) THEN NaN
    ELSE IF a.k = "inf" /\ b.k = "inf" THEN (IF a.s = b.s THEN a ELSE NaN)
    ELSE IF a.k = "inf" THEN a
    ELSE IF b.k = "inf" THEN b
    ELSE LET t == Signed(a) + Signed(b)
         IN  IF t = 0 THEN (IF a.s = 1 /\ b.s = 1 THEN Fin(1, 0) ELSE Zero)
             ELSE IF t < 0 THEN Round(1, 0 - t, 1)
             ELSE Round(0, t, 1)

\* a - b
Sub(a, b) == Add(a, Neg(b))

\* a / b
Div(a, b) ==
    LET sign == IF a.s = b.s THEN 0 ELSE 1
    IN  IF IsNaN(a) \/ IsNaN(b) THEN NaN
        ELSE IF a.k = "inf" THEN (IF b.k = "inf" THEN NaN ELSE Inf(sign))
        ELSE IF b.k = "inf" THEN Fin(sign, 0)
        ELSE IF b.m = 0 THEN (IF a.m = 0 THEN NaN ELSE Inf(sign))
        ELSE Round(sign, a.m * Pow2(Frac), b.m)

\* variant of Powf2 that keeps the sign of its operand (a * |a|)
Powf2Signed(a) ==
    IF IsNaN(a) THEN NaN
    ELSE IF a.k = "inf" THEN Inf(a.s)
    ELSE Round(a.s, a.m * a.m, Pow2(Frac))

\* a.powf(2.0)
Powf2(a) ==
    IF IsNaN(a) THEN NaN
    ELSE IF a.k = "inf" THEN Inf(0)
    ELSE Round(0, a.m * a.m, Pow2(Frac))

\* the integer part of the square root of n
ISqrt(n) == CHOOSE r \in 0..(n + 1) : r * r <= n /\ (r + 1) * (r + 1) > n

\* a.sqrt(): the magnitude nearest to the square root of a.m * 2^Frac
Sqrt(a) ==
    IF IsNaN(a) THEN NaN
    ELSE IF IsZero(a) THEN a
    ELSE IF a.s = 1 THEN NaN
    ELSE IF a.k = "inf" THEN a
    ELSE LET n == a.m * Pow2(Frac)
             root == ISqrt(n)
             ulp == Pow2(ExpOf(root, 1, 0))
             lo == (root \div ulp) * ulp
             hi == lo + ulp
         IN  IF lo * lo = n THEN Fin(0, lo)
             ELSE IF 4 * n < (lo + hi) * (lo + hi) THEN Fin(0, lo)
             ELSE IF 4 * n > (lo + hi) * (lo + hi) THEN Fin(0, hi)
             ELSE Fin(0, TieEven(lo, hi))

\* a != b on f64 (NaN differs from everything, -0.0 equals 0.0)
FNe(a, b) ==
    IF IsNaN(a) \/ IsNaN(b) THEN TRUE
    ELSE IF a.k = "inf" \/ b.k = "inf" THEN ~(a.k = b.k /\ a.s = b.s)
    ELSE Signed(a) # Signed(b)

\* a < b on NaN-free operands
FLt(a, b) ==
    IF a.k = "inf" THEN a.s = 1 /\ ~(b.k = "inf" /\ b.s = 1)
    ELSE IF b.k = "inf" THEN b.s = 0
    ELSE Signed(a) < Signed(b)

\* a.partial_cmp(b): "None" when an operand is NaN
PartialCmp(a, b) ==
    IF IsNaN(a) \/ IsNaN(b) THEN "None"
    ELSE IF FLt(a, b) THEN "Less"
    ELSE IF FLt(b, a) THEN "Greater"
    ELSE "Equal"

(***************************************************************************)
(* Option<f64> and slices                                                  *)
(***************************************************************************)
Some(x) == [some |-> TRUE, v |-> x]
None == [some |-> FALSE, v |-> Zero]
Unwrap(o) == o.v

Front(s) == SubSeq(s, 1, Len(s) - 1)
Last(s) == s[Len(s)]

\* the values samples are drawn from: NaN, +inf, both zeros, the smallest
\* subnormal, -1.0, 1.5, 3.0 and the largest finite value of either sign
MinusOne == Fin(1, Pow2(Frac))
OneAndHalf == Fin(0, 3 * Pow2(Frac - 1))
Three == Fin(0, 3 * Pow2(Frac))
Vals == {NaN, Inf(0), Zero, Fin(1, 0), Fin(0, 1), MinusOne, OneAndHalf, Three,
         Fin(0, MaxFin), Fin(1, MaxFin)}

Samples == UNION {[1..n -> Vals] : n \in 0..MaxLen}

Fns == {"mean", "stddev", "median", "l2"}

(***************************************************************************)
(* mean (lib.rs 26-37)                                                     *)
(***************************************************************************)
\* variant of MeanLoop that walks the slice from its end
RECURSIVE MeanLoopRev(_, _, _)
MeanLoopRev(s, i, sum) ==
    IF i > Len(s) THEN sum ELSE MeanLoopRev(s, i + 1, Add(sum, s[Len(s) + 1 - i]))

\* for num in &nums[..] { sum += num; }
RECURSIVE MeanLoop(_, _, _)
MeanLoop(s, i, sum) ==
    IF i > Len(s) THEN sum ELSE MeanLoop(s, i + 1, Add(sum, s[i]))

\* variant of mean that divides by count - 1
meanBessel(s) ==
    LET count == FromUsize(Len(s))
    IN  IF FNe(count, Zero)
        THEN Some(Div(MeanLoop(s, 1, Zero), Sub(count, FromUsize(1))))
        ELSE Some(Zero)

mean(s) ==
    LET count == FromUsize(Len(s))
    IN  IF FNe(count, Zero)
        THEN Some(Div(MeanLoop(s, 1, Zero), count))
        ELSE Some(Zero)

(***************************************************************************)
(* l2 (lib.rs 156-168)                                                     *)
(***************************************************************************)
\* variant of L2Loop that takes a square root per element
RECURSIVE L2LoopSqrtEach(_, _, _)
L2LoopSqrtEach(s, i, sum) ==
    IF i > Len(s) THEN sum ELSE L2LoopSqrtEach(s, i + 1, Add(sum, Sqrt(Powf2(s[i]))))

\* for val in &nums[..] { sum += val.powf(2.0); }
RECURSIVE L2Loop(_, _, _)
L2Loop(s, i, sum) ==
    IF i > Len(s) THEN sum ELSE L2Loop(s, i + 1, Add(sum, Powf2(s[i])))

l2(s) ==
    IF Len(s) # 0
    THEN Some(Sqrt(L2Loop(s, 1, Zero)))
    ELSE Some(Zero)

(***************************************************************************)
(* nums.sort_by(|a, b| a.partial_cmp(b).unwrap()) (lib.rs 117): a stable   *)
(* insertion sort, which is what the standard library runs on short        *)
(* slices.  The comparator panics when partial_cmp yields None.            *)
(***************************************************************************)
Sorted(s) == [panic |-> FALSE, v |-> s]
Panicked == [panic |-> TRUE, v |-> <<>>]

\* insert x behind the sorted run s, shifting it left past greater elements
RECURSIVE InsertTail(_, _)
InsertTail(s, x) ==
    IF s = <<>> THEN Sorted(<<x>>)
    ELSE LET c == PartialCmp(x, Last(s))
         IN  IF c = "None" THEN Panicked
             ELSE IF c = "Less"
                  THEN LET r == InsertTail(Front(s), x)
                       IN  IF r.panic THEN Panicked ELSE Sorted(Append(r.v, Last(s)))
                  ELSE Sorted(Append(s, x))

RECURSIVE SortBy(_)
SortBy(s) ==
    IF Len(s) <= 1 THEN Sorted(s)
    ELSE LET r == SortBy(Front(s))
         IN  IF r.panic THEN Panicked ELSE InsertTail(r.v, Last(s))

(***************************************************************************)
(* State: one call of one of the four functions on the caller's slice      *)
(***************************************************************************)
VARIABLES
    fn,        \* the function the caller invokes
    nums,      \* the caller's slice
    pc,        \* position of the call
    ret,       \* the Option<f64> returned (meaningful once pc = "done")
    count,     \* stddev: nums.len() as f64
    sigma,     \* stddev: running result
    xbar,      \* stddev: mean of the sample
    sqnums,    \* stddev: Vec of squared deviations
    i,         \* stddev: position of the for loop (next element, 1-based)
    sorted,    \* median: the owned copy that shadows nums
    index      \* median: index

vars == <<fn, nums, pc, ret, count, sigma, xbar, sqnums, i, sorted, index>>

stddevVars == <<count, sigma, xbar, sqnums, i>>
medianVars == <<sorted, index>>

Init ==
    /\ fn \in Fns
    /\ nums \in Samples
    /\ pc = "call"
    /\ ret = None
    /\ count = Zero
    /\ sigma = Zero
    /\ xbar = Zero
    /\ sqnums = <<>>
    /\ i = 1
    /\ sorted = <<>>
    /\ index = 0

\* the caller runs mean(&nums)
CallMean ==
    /\ pc = "call" /\ fn = "mean"
    /\ ret' = mean(nums)
    /\ pc' = "done"
    /\ UNCHANGED <<fn, nums, stddevVars, medianVars>>

\* the caller runs l2(&nums)
CallL2 ==
    /\ pc = "call" /\ fn = "l2"
    /\ ret' = l2(nums)
    /\ pc' = "done"
    /\ UNCHANGED <<fn, nums, stddevVars, medianVars>>

\* variant of StddevEnter that enters the loop without testing count
StddevEnterNoGuard ==
    /\ pc = "call" /\ fn = "stddev"
    /\ count' = FromUsize(Len(nums))
    /\ sigma' = Zero
    /\ xbar' = Unwrap(mean(nums))
    /\ sqnums' = <<>>
    /\ i' = 1
    /\ pc' = "sd_loop"
    /\ UNCHANGED <<fn, nums, ret, medianVars>>

\* stddev, lines 68-72: the locals and the test of count
StddevEnter ==
    /\ pc = "call" /\ fn = "stddev"
    /\ count' = FromUsize(Len(nums))
    /\ sigma' = Zero
    /\ xbar' = Unwrap(mean(nums))
    /\ sqnums' = <<>>
    /\ i' = 1
    /\ pc' = IF FNe(FromUsize(Len(nums)), Zero) THEN "sd_loop" ELSE "sd_none"
    /\ UNCHANGED <<fn, nums, ret, medianVars>>

\* variant of StddevLoop that squares the element instead of its deviation
StddevLoopNoCenter ==
    /\ pc = "sd_loop" /\ i <= Len(nums)
    /\ LET val == nums[i]
           temp == Powf2(val)
       IN  /\ sqnums' = Append(sqnums, temp)
           /\ sigma' = Sqrt(Unwrap(mean(Append(sqnums, temp))))
    /\ i' = i + 1
    /\ UNCHANGED <<fn, nums, pc, ret, count, xbar, medianVars>>

\* variant of StddevLoop that recomputes sigma before the push
StddevLoopStale ==
    /\ pc = "sd_loop" /\ i <= Len(nums)
    /\ LET val == nums[i]
           temp == Powf2(Sub(val, xbar))
       IN  /\ sqnums' = Append(sqnums, temp)
           /\ sigma' = Sqrt(Unwrap(mean(sqnums)))
    /\ i' = i + 1
    /\ UNCHANGED <<fn, nums, pc, ret, count, xbar, medianVars>>

\* stddev, lines 73-77: one iteration of the for loop
StddevLoop ==
    /\ pc = "sd_loop" /\ i <= Len(nums)
    /\ LET val == nums[i]
           temp == Powf2(Sub(val, xbar))
       IN  /\ sqnums' = Append(sqnums, temp)
           /\ sigma' = Sqrt(Unwrap(mean(Append(sqnums, temp))))
    /\ i' = i + 1
    /\ UNCHANGED <<fn, nums, pc, ret, count, xbar, medianVars>>

\* stddev, line 78: Some(sigma) after the loop
StddevSome ==
    /\ pc = "sd_loop" /\ i > Len(nums)
    /\ ret' = Some(sigma)
    /\ pc' = "done"
    /\ UNCHANGED <<fn, nums, stddevVars, medianVars>>

\* stddev, line 80: None for the empty slice
StddevNone ==
    /\ pc = "sd_none"
    /\ ret' = None
    /\ pc' = "done"
    /\ UNCHANGED <<fn, nums, stddevVars, medianVars>>

\* variant of MedianSort that sorts the caller's slice as well
MedianSortInPlace ==
    /\ pc = "call" /\ fn = "median"
    /\ LET r == SortBy(nums)
       IN  IF r.panic
           THEN /\ pc' = "panic"
                /\ UNCHANGED <<nums, sorted, index>>
           ELSE /\ pc' = "med_index"
                /\ nums' = r.v
                /\ sorted' = r.v
                /\ index' = Len(r.v)
    /\ UNCHANGED <<fn, ret, stddevVars>>

\* median, lines 115-118: the owned copy, its sort (which may panic) and
\* index = nums.len()
MedianSort ==
    /\ pc = "call" /\ fn = "median"
    /\ LET r == SortBy(nums)
       IN  IF r.panic
           THEN /\ pc' = "panic"
                /\ UNCHANGED <<sorted, index>>
           ELSE /\ pc' = "med_index"
                /\ sorted' = r.v
                /\ index' = Len(r.v)
    /\ UNCHANGED <<fn, nums, ret, stddevVars>>

\* variant of MedianSome that takes index / 2, the upper middle
MedianSomeUpper ==
    /\ pc = "med_index" /\ index # 0
    /\ index' = index \div 2
    /\ ret' = Some(sorted[(index \div 2) + 1])
    /\ pc' = "done"
    /\ UNCHANGED <<fn, nums, sorted, stddevVars>>

\* median, lines 119-122: Some(nums[(index-1)/2])
MedianSome ==
    /\ pc = "med_index" /\ index # 0
    /\ index' = (index - 1) \div 2
    /\ ret' = Some(sorted[((index - 1) \div 2) + 1])
    /\ pc' = "done"
    /\ UNCHANGED <<fn, nums, sorted, stddevVars>>

\* median, line 124: None for the empty slice
MedianNone ==
    /\ pc = "med_index" /\ index = 0
    /\ ret' = None
    /\ pc' = "done"
    /\ UNCHANGED <<fn, nums, sorted, index, stddevVars>>

Next ==
    \/ CallMean
    \/ CallL2
    \/ StddevEnter
    \/ StddevLoop
    \/ StddevSome
    \/ StddevNone
    \/ MedianSort
    \/ MedianSome
    \/ MedianNone

Spec == Init /\ [][Next]_vars

(***************************************************************************)
(* Notions the properties are stated with                                  *)
(***************************************************************************)
NaNFree(s) == \A j \in 1..Len(s) : ~IsNaN(s[j])

\* a <= b on NaN-free operands
FLe(a, b) == ~FLt(b, a)

\* the sum of s taken from the left, starting from 0.0
RECURSIVE SumLeft(_)
SumLeft(s) == IF s = <<>> THEN Zero ELSE Add(SumLeft(Front(s)), Last(s))

\* sum of the elements divided by their number
Average(s) == Div(SumLeft(s), FromUsize(Len(s)))

\* the squared deviations of the elements of s from m, in input order
SqDevs(s, m) == [j \in 1..Len(s) |-> Powf2(Sub(s[j], m))]

\* the squares of the elements of s, in input order
Squares(s) == [j \in 1..Len(s) |-> Powf2(s[j])]

\* the reorderings of s
Perms(s) ==
    LET n == Len(s)
        bij == {p \in [1..n -> 1..n] : \A a, b \in 1..n : p[a] = p[b] => a = b}
    IN  {[j \in 1..n |-> s[p[j]]] : p \in bij}

\* the samples obtained from s by negating a subset of its elements
SignFlips(s) ==
    {[j \in 1..Len(s) |-> IF j \in S THEN Neg(s[j]) ELSE s[j]] : S \in SUBSET (1..Len(s))}

Ascending(s) == \A j \in 1..(Len(s) - 1) : FLe(s[j], s[j + 1])

Returned(f) == pc = "done" /\ fn = f

(***************************************************************************)
(* C1.  For a non-empty NaN-free sample of n elements median returns a     *)
(* defined value: the element at zero-based index floor((n-1)/2) of the    *)
(* ascending-sorted copy.  For even n that index is n/2 - 1 and the value  *)
(* is the lower of the two middle elements, not their average.             *)
(***************************************************************************)
C1_MedianLowerMiddle ==
    (fn = "median" /\ nums # <<>> /\ NaNFree(nums)) =>
        /\ pc # "panic"
        /\ pc = "done" =>
            LET n == Len(nums)
                k == (n - 1) \div 2
            IN  /\ ret.some
                /\ \E t \in Perms(nums) : Ascending(t) /\ t[k + 1] = ret.v
                /\ \A t \in Perms(nums) : Ascending(t) => ~FNe(t[k + 1], ret.v)
                /\ n % 2 = 0 =>
                    /\ k = (n \div 2) - 1
                    /\ \A t \in Perms(nums) :
                          Ascending(t) => ~FNe(t[n \div 2], ret.v) /\ FLe(ret.v, t[(n \div 2) + 1])

\* median(&[3.0, -1.0]) has returned -1.0, the lower middle and not the average 1.0
C1_Witness ==
    /\ Returned("median")
    /\ nums = <<Three, MinusOne>>
    /\ ret = Some(MinusOne)

(***************************************************************************)
(* C2.  On NaN-free samples stddev and median return None exactly when the *)
(* sample is empty; mean and l2 always return Some, and Some(0.0) for the  *)
(* empty sample.                                                           *)
(***************************************************************************)
C2_UndefinedIffEmpty ==
    NaNFree(nums) =>
        /\ pc # "panic"
        /\ pc = "done" =>
            /\ fn \in {"stddev", "median"} => (ret.some <=> nums # <<>>)
            /\ fn \in {"mean", "l2"} => ret.some /\ (nums = <<>> => ret = Some(Zero))

\* stddev of the empty sample has returned None
C2_Witness == Returned("stddev") /\ nums = <<>> /\ ret = None

(***************************************************************************)
(* C3.  No call ends in a panic, whatever the sample contains (NaN and     *)
(* infinities included).                                                   *)
(***************************************************************************)
C3_NeverPanics == pc # "panic"

(***************************************************************************)
(* C4.  For a non-empty sample mean returns Some of the sum of the         *)
(* elements, accumulated from the left in input order, divided by the      *)
(* number of elements.                                                     *)
(***************************************************************************)
C4_MeanIsLeftSumOverCount ==
    (Returned("mean") /\ nums # <<>>) => ret = Some(Average(nums))

\* mean of a three-element sample whose sum depends on the order has returned
C4_Witness ==
    /\ Returned("mean")
    /\ nums = <<Fin(0, MaxFin), Fin(0, MaxFin), Fin(1, MaxFin)>>
    /\ ret = Some(Inf(0))

(***************************************************************************)
(* C5.  For a non-empty sample of n elements stddev returns the value of   *)
(* the direct computation: the square root of the sum of the squared       *)
(* deviations from the mean, divided by n (not n - 1).                     *)
(***************************************************************************)
C5_StddevIsDirectFormula ==
    (Returned("stddev") /\ nums # <<>>) =>
        ret = Some(Sqrt(Div(SumLeft(SqDevs(nums, Average(nums))), FromUsize(Len(nums)))))

\* stddev(&[-1.0, 3.0]) has returned 2.0
C5_Witness ==
    /\ Returned("stddev")
    /\ nums = <<MinusOne, Three>>
    /\ ret = Some(Fin(0, 2 * Pow2(Frac)))

(***************************************************************************)
(* C6.  For a non-empty sample l2 returns Some of the square root of the   *)
(* sum of the squares of the elements: the squares are accumulated and one *)
(* square root is taken at the end.                                        *)
(***************************************************************************)
C6_L2IsSqrtOfSumOfSquares ==
    (Returned("l2") /\ nums # <<>>) => ret = Some(Sqrt(SumLeft(Squares(nums))))

\* l2(&[-1.0, 1.5, 3.0]) has returned 3.5
C6_Witness ==
    /\ Returned("l2")
    /\ nums = <<MinusOne, OneAndHalf, Three>>
    /\ ret = Some(Fin(0, 7 * Pow2(Frac - 1)))

(***************************************************************************)
(* C7 as stated.  l2 is invariant under every reordering and under the     *)
(* negation of any subset of the elements of the sample.                   *)
(***************************************************************************)
C7_L2PermutationInvariant ==
    Returned("l2") => \A t \in Perms(nums) \cup SignFlips(nums) : l2(t) = ret

(***************************************************************************)
(* C7 as amended.  l2 is invariant under the negation of any subset of the *)
(* elements, and under reordering for samples of at most two elements;     *)
(* with three or more elements the rounding of the running sum depends on  *)
(* the order.                                                              *)
(***************************************************************************)
C7_L2SignFlipInvariant ==
    Returned("l2") =>
        /\ \A t \in SignFlips(nums) : l2(t) = ret
        /\ Len(nums) <= 2 => \A t \in Perms(nums) : l2(t) = ret

\* l2(&[-1.0, 3.0]) has returned 3.0, the value of l2(&[3.0, 1.0])
C7_Witness ==
    /\ Returned("l2")
    /\ nums = <<MinusOne, Three>>
    /\ ret = Some(Three)
    /\ l2(<<Three, Neg(MinusOne)>>) = ret

(***************************************************************************)
(* C8.  No step of any call changes the caller's sample; median sorts a    *)
(* private copy.                                                           *)
(***************************************************************************)
C8_CallerSampleUnchanged == [][nums' = nums]_vars

\* median has returned after sorting its copy into an order other than the caller's
C8_Witness ==
    /\ Returned("median")
    /\ nums = <<Three, MinusOne>>
    /\ sorted = <<MinusOne, Three>>

AllSame(s) == s # <<>> /\ IsFinite(s[1]) /\ \A j \in 1..Len(s) : s[j] = s[1]

C10_StddevLoopInvariant ==
    (fn = "stddev" /\ nums # <<>>) =>
        /\ pc = "sd_loop" =>
            LET k == i - 1
            IN  /\ k \in 0..Len(nums)
                /\ Len(sqnums) = k
                /\ \A j \in 1..k : sqnums[j] = Powf2(Sub(nums[j], Average(nums)))
                /\ k >= 1 => sigma = Sqrt(Average(sqnums))
        /\ pc = "done" => i = Len(nums) + 1 /\ ret = Some(sigma)
        /\ pc # "done" => ret = None

\* the loop of stddev(&[-1.0, 3.0, 3.0]) has processed one element
C10_Witness ==
    /\ fn = "stddev" /\ pc = "sd_loop"
    /\ nums = <<MinusOne, Three, Three>>
    /\ i = 2
    /\ Len(sqnums) = 1
    /\ sigma = Sqrt(sqnums[1])

====
